---- MODULE Spec2Model ----
(***************************************************************************)
(* A model of lazy-gpt's LazyGPT session (src/lazy-gpt/gpt.py): the Model  *)
(* enum, the conversation history, the token counters and the cost string. *)
(* The cost is computed by the source in IEEE-754 binary64 arithmetic and  *)
(* formatted with "{:.2f}"; both are modelled bit-exactly on naturals kept *)
(* as little-endian sequences of 12-bit limbs.                             *)
(*                                                                         *)
(* The default argument of __init__, Model.GPT_3 (line 40), names no       *)
(* member of the enum; the model covers callers that pass the model        *)
(* explicitly.  helpers.compile_messages is not part of the sources and is *)
(* modelled from the specification.                                        *)
(***************************************************************************)
EXTENDS Integers, Sequences, FiniteSets, TLC

(***************************************************************************)
(* Unbounded naturals: little-endian limbs in base 4096, no leading zero   *)
(* limb; the empty sequence is zero.                                       *)
(***************************************************************************)
LimbBits == 12

Base == 2 ^ LimbBits

Limb(n, i) == IF i >= 1 /\ i <= Len(n) THEN n[i] ELSE 0

RECURSIVE BigTrim(_)
BigTrim(n) ==
    IF n = <<>> THEN <<>>
    ELSE IF n[Len(n)] = 0 THEN BigTrim(SubSeq(n, 1, Len(n) - 1))
    ELSE n

RECURSIVE BigFromInt(_)
BigFromInt(k) == IF k = 0 THEN <<>> ELSE <<k % Base>> \o BigFromInt(k \div Base)

RECURSIVE BigToInt(_)
BigToInt(n) == IF n = <<>> THEN 0 ELSE n[1] + Base * BigToInt(Tail(n))

RECURSIVE BigAddC(_, _, _)
BigAddC(a, b, carry) ==
    IF a = <<>> /\ b = <<>>
    THEN (IF carry = 0 THEN <<>> ELSE <<carry>>)
    ELSE LET s == Limb(a, 1) + Limb(b, 1) + carry
         IN  <<s % Base>> \o BigAddC(IF a = <<>> THEN <<>> ELSE Tail(a),
                                     IF b = <<>> THEN <<>> ELSE Tail(b),
                                     s \div Base)

BigAdd(a, b) == BigTrim(BigAddC(a, b, 0))

RECURSIVE BigMulSmallC(_, _, _)
BigMulSmallC(a, k, carry) ==
    IF a = <<>>
    THEN (IF carry = 0 THEN <<>> ELSE <<carry>>)
    ELSE LET p == a[1] * k + carry
         IN  <<p % Base>> \o BigMulSmallC(Tail(a), k, p \div Base)

\* a * k for 0 <= k < Base
BigMulSmall(a, k) == BigTrim(BigMulSmallC(a, k, 0))

RECURSIVE BigMul(_, _)
BigMul(a, b) ==
    IF b = <<>> THEN <<>>
    ELSE BigAdd(BigMulSmall(a, b[1]),
                LET r == BigMul(a, Tail(b)) IN IF r = <<>> THEN <<>> ELSE <<0>> \o r)

\* quotient and remainder of a by k, 0 < k < Base, from the top limb down
RECURSIVE BigDivSmallR(_, _, _)
BigDivSmallR(a, k, rem) ==
    IF a = <<>> THEN [q |-> <<>>, r |-> rem]
    ELSE LET cur == rem * Base + a[Len(a)]
             rest == BigDivSmallR(SubSeq(a, 1, Len(a) - 1), k, cur % k)
         IN  [q |-> rest.q \o <<cur \div k>>, r |-> rest.r]

BigDivSmall(a, k) ==
    LET d == BigDivSmallR(a, k, 0) IN [q |-> BigTrim(d.q), r |-> d.r]

RECURSIVE SmallBitLen(_)
SmallBitLen(k) == IF k = 0 THEN 0 ELSE 1 + SmallBitLen(k \div 2)

BitLen(n) == IF n = <<>> THEN 0 ELSE LimbBits * (Len(n) - 1) + SmallBitLen(n[Len(n)])

ShiftLeft(n, k) ==
    LET kl == k \div LimbBits
        ks == k % LimbBits
    IN  BigTrim([j \in 1..(Len(n) + kl + 1) |->
                   (Limb(n, j - kl) % (2 ^ (LimbBits - ks))) * (2 ^ ks)
                   + (Limb(n, j - kl - 1) \div (2 ^ (LimbBits - ks)))])

ShiftRight(n, d) ==
    LET dl == d \div LimbBits
        ds == d % LimbBits
    IN  IF dl >= Len(n) THEN <<>>
        ELSE BigTrim([j \in 1..(Len(n) - dl) |->
                        (Limb(n, j + dl) \div (2 ^ ds))
                        + (Limb(n, j + dl + 1) % (2 ^ ds)) * (2 ^ (LimbBits - ds))])

\* bit i (0 = least significant) of n
Bit(n, i) == (Limb(n, (i \div LimbBits) + 1) \div (2 ^ (i % LimbBits))) % 2

\* some bit below position i of n is set
AnyBelow(n, i) ==
    \/ \E j \in 1..Len(n) : j <= i \div LimbBits /\ n[j] # 0
    \/ Limb(n, (i \div LimbBits) + 1) % (2 ^ (i % LimbBits)) # 0

\* (n + f) / 2^d with 0 <= f < 1 and sticky <=> f > 0, to the nearest
\* natural, ties to even
RoundShift(n, d, sticky) ==
    IF d = 0 THEN n
    ELSE LET q == ShiftRight(n, d)
             half == Bit(n, d - 1) = 1
             low == AnyBelow(n, d - 1) \/ sticky
             up == half /\ (low \/ Bit(q, 0) = 1)
         IN  IF up THEN BigAdd(q, <<1>>) ELSE q

(***************************************************************************)
(* binary64 values >= 0 in the normal range: [m, e] stands for m * 2^e     *)
(* with 2^52 <= m < 2^53, and zero is [m |-> <<>>, e |-> 0].               *)
(***************************************************************************)
MantBits == 53

FZero == [m |-> <<>>, e |-> 0]

\* the binary64 nearest to (n + f) * 2^e (round to nearest, ties to even)
FRound(n, e, sticky) ==
    IF n = <<>> THEN FZero
    ELSE LET L == BitLen(n)
         IN  IF L <= MantBits
             THEN [m |-> ShiftLeft(n, MantBits - L), e |-> e - (MantBits - L)]
             ELSE LET r == RoundShift(n, L - MantBits, sticky)
                  IN  IF BitLen(r) > MantBits
                      THEN [m |-> ShiftRight(r, 1), e |-> e + (L - MantBits) + 1]
                      ELSE [m |-> r, e |-> e + (L - MantBits)]

DivShift == 84

\* a / b correctly rounded, for naturals a and 0 < b < Base: Python's int / int
\* and the value of a decimal literal a/b
FDivInt(a, b) ==
    LET d == BigDivSmall(ShiftLeft(BigFromInt(a), DivShift), b)
    IN  FRound(d.q, 0 - DivShift, d.r # 0)

FMul(x, y) == FRound(BigMul(x.m, y.m), x.e + y.e, FALSE)

FAdd(x, y) ==
    IF x.m = <<>> THEN y
    ELSE IF y.m = <<>> THEN x
    ELSE LET e == IF x.e < y.e THEN x.e ELSE y.e
         IN  FRound(BigAdd(ShiftLeft(x.m, x.e - e), ShiftLeft(y.m, y.e - e)), e, FALSE)

\* round(x * 100) as "{:.2f}" rounds: the exact binary value, ties to even
FCents(x) ==
    LET n == BigMulSmall(x.m, 100)
    IN  BigToInt(IF x.e >= 0 THEN ShiftLeft(n, x.e) ELSE RoundShift(n, 0 - x.e, FALSE))

(***************************************************************************)
(* Bounds and input sets.                                                  *)
(***************************************************************************)
\* response() calls per session
MaxHistory == 2

Prompts == {"hi", "more"}

\* (prompt_tokens, completion_tokens, contents of the choices) of the results
\* the service returns
Results == {<<10, 5, <<"hello">>>>, <<1500, 500, <<"ok", "alt">>>>}

\* Python's None
None == "None"

SystemPrompts == {None, "be brief"}

\* the value of an attribute that has not been assigned yet
NoAttr == "<unset attribute>"

\* the builtin type object assigned to cost by the constructor
StrType == "<class 'str'>"

\* error kinds: the exception classes the source raises
InvalidModel == "ValueError"

RemoteCallFailed == "Exception"

\* an exception raised inside openai.ChatCompletion.create
ServiceError == "openai.error.OpenAIError"

(***************************************************************************)
(* class Model(Enum)                                                       *)
(***************************************************************************)
Model == {"GPT4", "GPT4_32K", "GPT3_5"}

\* references that are not members of the enum: an identifier string, None
NotModels == {"gpt-4", None}

\* the members' values; the rates are the binary64 values of the decimal literals
GPT4 == <<"gpt-4", FDivInt(3, 100), FDivInt(6, 100)>>

GPT4_32K == <<"gpt-4-32k", FDivInt(6, 100), FDivInt(12, 100)>>

GPT3_5 == <<"gpt-3.5-turbo", FDivInt(2, 1000), FDivInt(2, 1000)>>

\* member.value
ModelValue(m) ==
    CASE m = "GPT4"     -> GPT4
      [] m = "GPT4_32K" -> GPT4_32K
      [] m = "GPT3_5"   -> GPT3_5

IsModel(model) == model \in Model

(***************************************************************************)
(* Pure parts of LazyGPT.response, change_model and get_messages.          *)
(***************************************************************************)
\* self.messages.append([prompt, None])
AppendPending(msgs, prompt) == Append(msgs, <<prompt, None>>)

\* helpers.compile_messages(self.messages, self._system)
RECURSIVE CompileExchanges(_)
CompileExchanges(msgs) ==
    IF msgs = <<>> THEN <<>>
    ELSE LET ex == Head(msgs)
         IN  <<[role |-> "user", content |-> ex[1]]>>
             \o (IF ex[2] # None THEN <<[role |-> "assistant", content |-> ex[2]]>> ELSE <<>>)
             \o CompileExchanges(Tail(msgs))

compile_messages(msgs, system) ==
    (IF system # None THEN <<[role |-> "system", content |-> system]>> ELSE <<>>)
    \o CompileExchanges(msgs)

\* variant: the model identifier is hard-coded
CreateArgs_fixed(model_id, compiled) == [model |-> "gpt-3.5-turbo", messages |-> compiled]

\* the keyword arguments of openai.ChatCompletion.create
CreateArgs(model_id, compiled) == [model |-> model_id, messages |-> compiled]

\* variant: the pending exchange is removed before raising
MessagesOnNone_pop(pending) == SubSeq(pending, 1, Len(pending) - 1)

\* what the raise on a None response leaves in self.messages
MessagesOnNone(pending) == pending

\* variant: = instead of +=
AddTokens_assign(total, used) == used

\* self.prompt_tokens += ..., self.completion_tokens += ...
AddTokens(total, used) == total + used

\* (prompt_tokens / 1000) * rate[0] + (completion_tokens / 1000) * rate[1]
CostValue(pt, ct, rate) ==
    FAdd(FMul(FDivInt(pt, 1000), rate[1]), FMul(FDivInt(ct, 1000), rate[2]))

\* "$d.cc" for a number of cents
Dollars(c) ==
    "$" \o ToString(c \div 100) \o "." \o ToString((c % 100) \div 10) \o ToString(c % 10)

\* f"${cost:.2f}"
FormatCost(v) == Dollars(FCents(v))

\* variant: the last choice instead of the first
ReplyOf_last(resp) == resp.choices[Len(resp.choices)].message.content

\* response["choices"][0]["message"]["content"]
ReplyOf(resp) == resp.choices[1].message.content

\* variant: the reply is written to every unanswered exchange
SetReply_unanswered(msgs, reply) ==
    [i \in 1..Len(msgs) |-> IF msgs[i][2] = None THEN <<msgs[i][1], reply>> ELSE msgs[i]]

\* self.messages[-1][1] = reply
SetReply(msgs, reply) == [msgs EXCEPT ![Len(msgs)][2] = reply]

\* return reply if just_reply else response
ReturnValue(reply, resp, just_reply) == IF just_reply THEN reply ELSE resp

\* variant: the two rates are stored in the wrong order
ChangeModelResult_swapped(model, cur_model, cur_rate) ==
    IF ~IsModel(model)
    THEN [raised |-> InvalidModel, _model |-> cur_model, _rate |-> cur_rate]
    ELSE [raised |-> None,
          _model |-> ModelValue(model)[1],
          _rate  |-> <<ModelValue(model)[3], ModelValue(model)[2]>>]

\* variant: an invalid model is ignored instead of raising
ChangeModelResult_silent(model, cur_model, cur_rate) ==
    IF ~IsModel(model)
    THEN [raised |-> None, _model |-> cur_model, _rate |-> cur_rate]
    ELSE [raised |-> None,
          _model |-> ModelValue(model)[1],
          _rate  |-> SubSeq(ModelValue(model), 2, 3)]

\* change_model: the exception raised, if any, and the attributes afterwards
ChangeModelResult(model, cur_model, cur_rate) ==
    IF ~IsModel(model)
    THEN [raised |-> InvalidModel, _model |-> cur_model, _rate |-> cur_rate]
    ELSE [raised |-> None,
          _model |-> ModelValue(model)[1],
          _rate  |-> SubSeq(ModelValue(model), 2, 3)]

\* variant: no assistant entry for an unanswered exchange
RECURSIVE MessageDicts_skip(_)
MessageDicts_skip(msgs) ==
    IF msgs = <<>> THEN <<>>
    ELSE <<[user |-> Head(msgs)[1]]>>
         \o (IF Head(msgs)[2] # None THEN <<[assistant |-> Head(msgs)[2]]>> ELSE <<>>)
         \o MessageDicts_skip(Tail(msgs))

\* get_messages: two one-key dicts per exchange
RECURSIVE MessageDicts(_)
MessageDicts(msgs) ==
    IF msgs = <<>> THEN <<>>
    ELSE <<[user |-> Head(msgs)[1]], [assistant |-> Head(msgs)[2]]>>
         \o MessageDicts(Tail(msgs))

\* the results openai.ChatCompletion.create can return
Responses ==
    {[usage   |-> [prompt_tokens |-> r[1], completion_tokens |-> r[2]],
      choices |-> [i \in 1..Len(r[3]) |-> [message |-> [content |-> r[3][i]]]]] :
        r \in Results}

(***************************************************************************)
(* State.                                                                  *)
(***************************************************************************)
VARIABLES
    alive,              \* a LazyGPT object exists
    _model,             \* self._model
    _rate,              \* self._rate
    _system,            \* self._system
    messages,           \* self.messages
    cost,               \* self.cost
    prompt_tokens,      \* self.prompt_tokens
    completion_tokens,  \* self.completion_tokens
    call,               \* the last call: method, arguments, exception raised
    ret,                \* what the last call returned
    request,            \* arguments of the last openai.ChatCompletion.create
    result,             \* what the last openai.ChatCompletion.create returned
    extCalls,           \* number of openai.ChatCompletion.create calls made
    nOk,                \* response() calls that returned
    nFailed,            \* response() calls that raised
    reported            \* sums of the usage the service reported

attrs == <<_model, _rate, _system, messages, cost, prompt_tokens, completion_tokens>>

observers == <<request, result, extCalls, nOk, nFailed, reported>>

vars == <<alive, attrs, call, ret, observers>>

Call(op, model, prompt, just_reply, raised) ==
    [op |-> op, model |-> model, prompt |-> prompt, just_reply |-> just_reply,
     raised |-> raised]

Init ==
    /\ alive = FALSE
    /\ _model = NoAttr
    /\ _rate = NoAttr
    /\ _system = NoAttr
    /\ messages = NoAttr
    /\ cost = NoAttr
    /\ prompt_tokens = NoAttr
    /\ completion_tokens = NoAttr
    /\ call = Call("import", None, None, TRUE, None)
    /\ ret = None
    /\ request = None
    /\ result = None
    /\ extCalls = 0
    /\ nOk = 0
    /\ nFailed = 0
    /\ reported = <<0, 0>>

\* variant: the constructor binds the default model whatever model is passed
init_default ==
    /\ ~alive
    /\ \E model \in Model \cup NotModels, system \in SystemPrompts :
         LET cm == ChangeModelResult(IF IsModel(model) THEN "GPT3_5" ELSE model,
                                     _model, _rate)
         IN  /\ call' = Call("__init__", model, None, TRUE, cm.raised)
             /\ ret' = None
             /\ IF cm.raised # None
                THEN UNCHANGED <<alive, attrs>>
                ELSE /\ alive' = TRUE
                     /\ _model' = cm._model
                     /\ _rate' = cm._rate
                     /\ _system' = system
                     /\ messages' = <<>>
                     /\ cost' = StrType
                     /\ prompt_tokens' = 0
                     /\ completion_tokens' = 0
    /\ UNCHANGED observers

\* LazyGPT(model, system)
__init__ ==
    /\ ~alive
    /\ \E model \in Model \cup NotModels, system \in SystemPrompts :
         LET cm == ChangeModelResult(model, _model, _rate)
         IN  /\ call' = Call("__init__", model, None, TRUE, cm.raised)
             /\ ret' = None
             /\ IF cm.raised # None
                THEN UNCHANGED <<alive, attrs>>
                ELSE /\ alive' = TRUE
                     /\ _model' = cm._model
                     /\ _rate' = cm._rate
                     /\ _system' = system
                     /\ messages' = <<>>
                     /\ cost' = StrType
                     /\ prompt_tokens' = 0
                     /\ completion_tokens' = 0
    /\ UNCHANGED observers

\* self.change_model(model)
change_model ==
    /\ alive
    /\ \E model \in Model \cup NotModels :
         LET cm == ChangeModelResult(model, _model, _rate)
         IN  /\ call' = Call("change_model", model, None, TRUE, cm.raised)
             /\ ret' = None
             /\ _model' = cm._model
             /\ _rate' = cm._rate
    /\ UNCHANGED <<alive, _system, messages, cost, prompt_tokens, completion_tokens>>
    /\ UNCHANGED observers

\* self.response(prompt, just_reply) when the service returns a result
response ==
    /\ alive
    /\ Len(messages) < MaxHistory
    /\ \E prompt \in Prompts, just_reply \in BOOLEAN, resp \in Responses :
         LET pending == AppendPending(messages, prompt)
             pt == AddTokens(prompt_tokens, resp.usage.prompt_tokens)
             ct == AddTokens(completion_tokens, resp.usage.completion_tokens)
             reply == ReplyOf(resp)
         IN  /\ request' = CreateArgs(_model, compile_messages(pending, _system))
             /\ result' = resp
             /\ prompt_tokens' = pt
             /\ completion_tokens' = ct
             /\ cost' = FormatCost(CostValue(pt, ct, _rate))
             /\ messages' = SetReply(pending, reply)
             /\ ret' = ReturnValue(reply, resp, just_reply)
             /\ call' = Call("response", None, prompt, just_reply, None)
             /\ reported' = <<reported[1] + resp.usage.prompt_tokens,
                              reported[2] + resp.usage.completion_tokens>>
    /\ extCalls' = extCalls + 1
    /\ nOk' = nOk + 1
    /\ UNCHANGED <<alive, _model, _rate, _system, nFailed>>

\* self.response(prompt, just_reply) when the service returns None
response_none ==
    /\ alive
    /\ Len(messages) < MaxHistory
    /\ \E prompt \in Prompts, just_reply \in BOOLEAN :
         LET pending == AppendPending(messages, prompt)
         IN  /\ request' = CreateArgs(_model, compile_messages(pending, _system))
             /\ messages' = MessagesOnNone(pending)
             /\ call' = Call("response", None, prompt, just_reply, RemoteCallFailed)
    /\ result' = None
    /\ ret' = None
    /\ extCalls' = extCalls + 1
    /\ nFailed' = nFailed + 1
    /\ UNCHANGED <<alive, _model, _rate, _system, cost, prompt_tokens, completion_tokens>>
    /\ UNCHANGED <<nOk, reported>>

\* self.response(prompt, just_reply) when the service call itself raises
response_raises ==
    /\ alive
    /\ Len(messages) < MaxHistory
    /\ \E prompt \in Prompts, just_reply \in BOOLEAN :
         LET pending == AppendPending(messages, prompt)
         IN  /\ request' = CreateArgs(_model, compile_messages(pending, _system))
             /\ messages' = pending
             /\ call' = Call("response", None, prompt, just_reply, ServiceError)
    /\ result' = None
    /\ ret' = None
    /\ extCalls' = extCalls + 1
    /\ nFailed' = nFailed + 1
    /\ UNCHANGED <<alive, _model, _rate, _system, cost, prompt_tokens, completion_tokens>>
    /\ UNCHANGED <<nOk, reported>>

\* self.get_messages()
get_messages ==
    /\ alive
    /\ ret' = MessageDicts(messages)
    /\ call' = Call("get_messages", None, None, TRUE, None)
    /\ UNCHANGED <<alive, attrs, observers>>

Next ==
    \/ __init__
    \/ change_model
    \/ response
    \/ response_none
    \/ response_raises
    \/ get_messages

Spec == Init /\ [][Next]_vars

(***************************************************************************)
(* Properties.  A step is attributed to a call through call', which every  *)
(* action sets to its own method, arguments and exception.                 *)
(***************************************************************************)
FirstChoice(resp) == resp.choices[1].message.content

ResponseReturned(c) == c.op = "response" /\ c.raised = None

\* C1: after N successful response calls and no failed one on a fresh session
\* (change_model calls anywhere in between), messages has exactly N exchanges,
\* each with its reply set, and the two counters equal the sums of the prompt
\* and completion tokens the service reported.
C1_SuccessfulCallsAccounted ==
    (alive /\ nFailed = 0) =>
        /\ Len(messages) = nOk
        /\ \A i \in 1..Len(messages) : messages[i][2] # None
        /\ prompt_tokens = reported[1]
        /\ completion_tokens = reported[2]

C1_Witness ==
    /\ alive
    /\ nFailed = 0
    /\ nOk = 2
    /\ call.op = "change_model"
    /\ call.raised = None
    /\ prompt_tokens = 1510
    /\ completion_tokens = 505

\* C2: a response call whose service call returns None raises the
\* RemoteCallFailed exception after exactly one service call; messages is one
\* exchange longer, the new last exchange is the prompt with reply None, and
\* the counters, the cost and the active model and rates are unchanged.
C2_NoneResultLeavesPending ==
    [][(call'.op = "response" /\ call'.raised = RemoteCallFailed) =>
          /\ extCalls' = extCalls + 1
          /\ Len(messages') = Len(messages) + 1
          /\ SubSeq(messages', 1, Len(messages)) = messages
          /\ messages'[Len(messages')] = <<call'.prompt, None>>
          /\ UNCHANGED <<prompt_tokens, completion_tokens, cost, _model, _rate>>]_vars

C2_Witness ==
    /\ alive
    /\ call.op = "response"
    /\ call.raised = RemoteCallFailed
    /\ nOk >= 1
    /\ messages[Len(messages)][2] = None
    /\ prompt_tokens > 0

\* C3: __init__ and change_model given a reference that is not a member of
\* Model raise InvalidModel without any service call and leave the object (or
\* its absence), model, rates, history, counters and cost as they were; a
\* successful __init__ starts with empty messages and both counters at zero.
C3_InvalidModelRejected ==
    [][/\ (call'.op \in {"__init__", "change_model"} /\ call'.model \notin Model) =>
             /\ call'.raised = InvalidModel
             /\ UNCHANGED <<alive, attrs, extCalls, request>>
       /\ (call'.op = "__init__" /\ call'.model \in Model) =>
             /\ call'.raised = None
             /\ alive'
             /\ messages' = <<>>
             /\ prompt_tokens' = 0
             /\ completion_tokens' = 0
             /\ extCalls' = extCalls]_vars

C3_Witness ==
    /\ alive
    /\ call.op = "change_model"
    /\ call.model \notin Model
    /\ call.raised = InvalidModel
    /\ nOk >= 1
    /\ Len(messages) >= 1

\* C4: a successful change_model sets the active identifier and rate pair to
\* those of the given member and leaves messages, both counters and the cost
\* string as they were.
C4_ChangeModelFrame ==
    [][(call'.op = "change_model" /\ call'.raised = None) =>
          /\ _model' = ModelValue(call'.model)[1]
          /\ _rate' = <<ModelValue(call'.model)[2], ModelValue(call'.model)[3]>>
          /\ UNCHANGED <<messages, prompt_tokens, completion_tokens, cost, _system>>]_vars

C4_Witness ==
    /\ alive
    /\ call.op = "change_model"
    /\ call.raised = None
    /\ nOk >= 1
    /\ request.model # _model
    /\ _rate # <<_rate[2], _rate[1]>>

\* the rates of a model identifier as decimals, in thousandths of a dollar per
\* 1000 tokens
DecimalRates(id) ==
    CASE id = "gpt-4"         -> <<30, 60>>
      [] id = "gpt-4-32k"     -> <<60, 120>>
      [] id = "gpt-3.5-turbo" -> <<2, 2>>

\* (pt / 1000) * r0 + (ct / 1000) * r1, exactly, in millionths of a dollar
ExactMicros(pt, ct, id) == pt * DecimalRates(id)[1] + ct * DecimalRates(id)[2]

\* the exact cost rounded to cents, by either rule for a tie
RoundedCents(u) ==
    LET q == u \div 10000
        r == u % 10000
    IN  IF r = 5000 THEN {q + 1, IF q % 2 = 1 THEN q + 1 ELSE q}
        ELSE IF r > 5000 THEN {q + 1} ELSE {q}

\* C5: after every successful response call, cost is the currency string of
\* (prompt_tokens / 1000) x input rate + (completion_tokens / 1000) x output
\* rate rounded to two decimal places, on the session totals and the rates of
\* the model active at that call; 1500 and 500 tokens at (0.03, 0.06) give
\* "$0.08".
C5_CostIsRoundedFormula ==
    (alive /\ ResponseReturned(call)) =>
        /\ \E c \in RoundedCents(ExactMicros(prompt_tokens, completion_tokens, _model)) :
              cost = Dollars(c)
        /\ (prompt_tokens = 1500 /\ completion_tokens = 500 /\ _model = "gpt-4") =>
              cost = "$0.08"

\* C6: get_messages returns 2 x Len(messages) entries, entry 2i-1 the user
\* entry with the i-th prompt and entry 2i the assistant entry with the i-th
\* reply (None when unanswered), and changes nothing of the session.
C6_TranscriptShape ==
    [][call'.op = "get_messages" =>
          /\ Len(ret') = 2 * Len(messages)
          /\ \A i \in 1..Len(messages) :
                /\ ret'[2 * i - 1] = [user |-> messages[i][1]]
                /\ ret'[2 * i] = [assistant |-> messages[i][2]]
          /\ UNCHANGED <<alive, attrs, extCalls>>]_vars

C6_Witness ==
    /\ alive
    /\ call.op = "get_messages"
    /\ Len(messages) >= 2
    /\ \E i \in 1..Len(messages) : messages[i][2] = None
    /\ \E i \in 1..Len(messages) : messages[i][2] # None
    /\ Len(ret) = 2 * Len(messages)

\* C7: change_model(m) right after a successful __init__(m) leaves the active
\* identifier and rate pair as __init__ set them.
C7_SameModelNoOp ==
    [][(/\ call.op = "__init__"
        /\ call.raised = None
        /\ call'.op = "change_model"
        /\ call'.model = call.model) =>
          /\ call'.raised = None
          /\ _model' = _model
          /\ _rate' = _rate]_vars

C7_Witness ==
    /\ alive
    /\ call.op = "change_model"
    /\ call.raised = None
    /\ call.model = "GPT4"
    /\ _model = "gpt-4"
    /\ messages = <<>>
    /\ extCalls = 0

\* C8: a successful response call returns the content of the result's first
\* choice when just_reply is true and the whole result otherwise, and stores
\* that content as the reply of the exchange it appended; __init__(GPT3_5)
\* then response("hi") with usage 10 and 5 and reply "hello" returns "hello"
\* and leaves the counters at 10 and 5 and the cost at "$0.00".
C8_ReturnValue ==
    [][/\ ResponseReturned(call') =>
             /\ IF call'.just_reply THEN ret' = FirstChoice(result')
                                    ELSE ret' = result'
             /\ messages'[Len(messages')] = <<call'.prompt, FirstChoice(result')>>
       /\ (/\ call.op = "__init__" /\ call.raised = None /\ call.model = "GPT3_5"
           /\ ResponseReturned(call') /\ call'.prompt = "hi" /\ call'.just_reply
           /\ result'.usage = [prompt_tokens |-> 10, completion_tokens |-> 5]
           /\ FirstChoice(result') = "hello") =>
             /\ ret' = "hello"
             /\ prompt_tokens' = 10
             /\ completion_tokens' = 5
             /\ cost' = "$0.00"]_vars

C8_Witness ==
    /\ alive
    /\ ResponseReturned(call)
    /\ call.just_reply
    /\ Len(result.choices) = 2
    /\ ret = "ok"
    /\ messages[Len(messages)][2] = "ok"

\* the message list of C9, built from the oldest exchange on
RECURSIVE Outbound(_)
Outbound(hist) ==
    IF hist = <<>> THEN <<>>
    ELSE LET last == hist[Len(hist)]
         IN  Outbound(SubSeq(hist, 1, Len(hist) - 1))
             \o <<[role |-> "user", content |-> last[1]]>>
             \o (IF last[2] = None THEN <<>>
                 ELSE <<[role |-> "assistant", content |-> last[2]]>>)

\* C9: every response call sends the identifier of the active model and a
\* message list made of one system message iff the system prompt is set, then
\* for every exchange in order, the one just appended and earlier unanswered
\* ones included, its user message and, only if its reply is set, its
\* assistant message.
C9_OutboundMessages ==
    [][call'.op = "response" =>
          /\ request'.model = _model
          /\ request'.messages =
                (IF _system = None THEN <<>>
                 ELSE <<[role |-> "system", content |-> _system]>>)
                \o Outbound(Append(messages, <<call'.prompt, None>>))]_vars

C9_Witness ==
    /\ alive
    /\ call.op = "response"
    /\ _system # None
    /\ Len(messages) = 2
    /\ messages[1][2] = None
    /\ messages[2][2] # None
    /\ Len(request.messages) = 3
    /\ request.model = "gpt-4"

\* C10: messages only grows at its end, by at most one exchange per step, and
\* no exchange already in it changes: no prompt, no set reply, and no unset
\* reply of an earlier exchange.
C10_HistoryAppendOnly ==
    [][alive =>
          /\ alive'
          /\ Len(messages') \in {Len(messages), Len(messages) + 1}
          /\ SubSeq(messages', 1, Len(messages)) = messages]_vars

C10_Witness ==
    /\ alive
    /\ Len(messages) >= 2
    /\ messages[1][2] = None
    /\ messages[2][2] # None
    /\ ResponseReturned(call)
====
